---- MODULE Spec2Model ----
(***************************************************************************)
(* The chat relay of src/server.js: the Socket.IO handlers 'join room',    *)
(* 'chat message', 'disconnect' and 'error' over the two in-memory tables  *)
(* chatHistories and roomUsers, and the multer upload pipeline behind      *)
(* POST /upload.                                                            *)
(*                                                                         *)
(* Every handler runs to completion on Node's single event loop, so each   *)
(* handler is one action.  Events a handler emits are collected in outbox, *)
(* which holds the emits of the most recent handler only, in emit order,   *)
(* each with the set of connections it was delivered to.                   *)
(***************************************************************************)
EXTENDS Integers, Sequences, FiniteSets, TLC

(* ------------------------------ bounds -------------------------------- *)

\* Successful 'chat message' requests over the process lifetime, under Spec.
MaxSends == 3

\* The same, under RequestSpec.
MaxRequestSends == 1

\* The same, under HistorySpec: enough to overflow a history.
MaxLongSends == 102

\* Of these, the sends to the second room.
MaxOtherSends == 1

\* Successful 'chat message' requests under OrderSpec.
MaxOrderSends == 2

\* Upload calls over the process lifetime.
MaxUploads == 2

\* File parts of one upload call, under UploadSpec.
MaxParts == 2

(* -------------------------- program constants ------------------------- *)

\* Messages a room's history keeps.
MAX_HISTORY_LENGTH == 100

\* upload.array('files', 5): files multer lets through per call.
MAX_FILES == 5

\* limits.fileSize, 15 * 1024 * 1024 bytes.
FILE_SIZE_LIMIT == 15728640

(* ------------------------------ values -------------------------------- *)

\* Socket ids of the connections opened over the process lifetime.
Conns == {"s1", "s2"}

\* Task ids that clients use as room names.
Rooms == {"A", "B"}

\* A string field the request does not carry.
Undefined == "<undefined>"

\* A request whose user / sender object is absent.
NoUser == [absent |-> TRUE]

ann == [auid |-> "a1", name |-> "ann"]
bob == [auid |-> "b2", name |-> "bob"]

\* A request whose files field is absent, and one that carries a list.
NoFiles == [array |-> FALSE]
FileList(items) == [array |-> TRUE, items |-> items]

\* !v for the string fields of a request: undefined and '' are falsy.
Falsy(v) == v \in {Undefined, ""}

\* Request payloads, well-formed and not.
TaskIds == Rooms \cup {""}
UserInputs == {NoUser, [auid |-> "", name |-> "ann"],
               [auid |-> "a1", name |-> Undefined], ann, bob}
SenderInputs == {NoUser, [auid |-> Undefined, name |-> "ann"],
                 [auid |-> "a1", name |-> ""], ann}
BodyInputs == {[message |-> Undefined, files |-> NoFiles],
               [message |-> "hi", files |-> FileList(<<"f.png">>)]}

\* Outcomes of `msg-${Date.now()}-${Math.random().toString(36).substring(2, 9)}`:
\* neither the clock nor the random suffix is guaranteed to differ between
\* two calls, so the id is any of a small set of values.
MsgIds == {"msg-1-aaaaaaa", "msg-1-bbbbbbb"}

VARIABLES
    status,         \* status[c]: "none" (not yet connected), "connected", "disconnected"
    userData,       \* socket.userData of each connection, NoUser while unset
    socketRooms,    \* socket.rooms of each connection, without its own id room
    roomUsers,      \* the roomUsers object: room -> (socket id -> user)
    chatHistories,  \* the chatHistories object: room -> array of messages
    outbox,         \* emits of the most recent handler, in order
    sent,           \* history variable: per room, every message successfully sent
    joined,         \* history variable: rooms each connection successfully joined
    lastOp,         \* history variable: the event the most recent handler handled
    inbox,          \* history variable: where observed, the live 'chat message'
                    \* events each connected socket received, oldest first
    disk,           \* the uploads directory: storage name -> the upload call that wrote it
    upl,            \* the upload call being processed by multer, if any
    response,       \* the response of the most recently finished upload call
    uploadsBegun,   \* number of upload calls received so far
    diskBefore,     \* history variable: disk when the latest upload call began
    partsSent,      \* history variable: file parts the latest upload call carries
    reused,         \* history variable: the latest call wrote under a name already on disk
    drawn           \* the number of the latest uniqueSuffix drawn, 0 before the first

chatVars == <<status, userData, socketRooms, roomUsers, chatHistories,
              outbox, sent, joined, lastOp, inbox>>

uploadVars == <<disk, upl, response, uploadsBegun, diskBefore, partsSent, reused,
                drawn>>

vars == <<chatVars, uploadVars>>

(* ------------------------------ emits --------------------------------- *)

\* The event a handler was called for: the socket, and the taskId and the
\* user / sender of the payload.
Op(op, c, taskId, user) == [op |-> op, conn |-> c, taskId |-> taskId, user |-> user]

\* The sockets currently in Socket.IO room r, given the adapter's rooms sr.
InRoom(sr, r) == {c \in Conns : r \in sr[c]}

ToEverySocket(c, ev, data) == [ev |-> ev, room |-> "", to |-> Conns, data |-> data]

\* socket.emit(ev, data): delivered to the one socket.
ToSocket(c, ev, data) == [ev |-> ev, room |-> "", to |-> {c}, data |-> data]

ToRoomAndOthers(sr, r, ev, data) == [ev |-> ev, room |-> r, to |-> DOMAIN sr, data |-> data]

\* io.to(r).emit(ev, data): delivered to every socket in room r.
ToRoom(sr, r, ev, data) == [ev |-> ev, room |-> r, to |-> InRoom(sr, r), data |-> data]

\* The clients' side is observed or not for a whole run.
NotObserved == [on |-> FALSE]
Observed(got) == [on |-> TRUE, got |-> got]

\* What the sockets have received once a handler has emitted out: every
\* 'chat message' emit is appended for the sockets it was delivered to, in
\* emit order; a socket that is not connected holds nothing.
Deliver(inb, out, st) ==
    IF ~inb.on THEN inb
    ELSE Observed([c \in Conns |->
            IF st[c] # "connected" THEN <<>>
            ELSE LET live == SelectSeq(out, LAMBDA e : e.ev = "chat message"
                                                        /\ c \in e.to)
                 IN  inb.got[c] \o [i \in 1..Len(live) |-> live[i].data]])

(* --------------------------- 'join room' ------------------------------ *)

\* !taskId || !user || !user.auid || !user.name
JoinInvalid(taskId, user) ==
    IF Falsy(taskId) THEN TRUE
    ELSE IF user = NoUser THEN TRUE
    ELSE IF Falsy(user.auid) THEN TRUE
    ELSE Falsy(user.name)

MissingFieldsOfUser(taskId, user) ==
    IF user = NoUser
    THEN <<"user object">>
    ELSE (IF Falsy(user.auid) THEN <<"user.auid">> ELSE <<>>)
         \o (IF Falsy(user.name) THEN <<"user.name">> ELSE <<>>)

\* The `missing` array of the rejection branch.
MissingFields(taskId, user) ==
    (IF Falsy(taskId) THEN <<"taskId">> ELSE <<>>)
    \o (IF user = NoUser
        THEN <<"user object">>
        ELSE (IF Falsy(user.auid) THEN <<"user.auid">> ELSE <<>>)
             \o (IF Falsy(user.name) THEN <<"user.name">> ELSE <<>>))

JoinErrorText(taskId, user) ==
    <<"Failed to join room. Missing required data:">> \o MissingFields(taskId, user)

\* An object with no keys.
EmptyObject == [k \in {} |-> NoUser]

\* if (!roomUsers[taskId]) roomUsers[taskId] = {}; roomUsers[taskId][socket.id] = user
PutUser(ru, taskId, c, user) ==
    LET old == IF taskId \in DOMAIN ru THEN ru[taskId] ELSE EmptyObject
        new == [k \in DOMAIN old \cup {c} |-> IF k = c THEN user ELSE old[k]]
    IN  [r \in DOMAIN ru \cup {taskId} |-> IF r = taskId THEN new ELSE ru[r]]

EnsureHistoryAnew(ch, taskId) ==
    [r \in DOMAIN ch \cup {taskId} |-> IF r = taskId THEN <<>> ELSE ch[r]]

\* if (!chatHistories[taskId]) chatHistories[taskId] = []
EnsureHistory(ch, taskId) ==
    [r \in DOMAIN ch \cup {taskId} |-> IF r \in DOMAIN ch THEN ch[r] ELSE <<>>]

BindUserForgotten(old, user) == old

BindUserOnce(old, user) == IF old = NoUser THEN user ELSE old

\* socket.userData = user
BindUser(old, user) == user

SocketJoinNothing(sr, c, taskId) == sr

\* socket.join(taskId)
SocketJoin(sr, c, taskId) == [sr EXCEPT ![c] = @ \cup {taskId}]

JoinRoom(c, taskId, user) ==
    /\ status[c] = "connected"
    /\ lastOp' = Op("join room", c, taskId, user)
    /\ IF JoinInvalid(taskId, user)
       THEN /\ outbox' = <<ToSocket(c, "error message",
                                    [message |-> JoinErrorText(taskId, user)])>>
            /\ UNCHANGED <<status, userData, socketRooms, roomUsers,
                           chatHistories, sent, joined>>
       ELSE /\ userData' = [userData EXCEPT ![c] = BindUser(@, user)]
            /\ socketRooms' = SocketJoin(socketRooms, c, taskId)
            /\ roomUsers' = PutUser(roomUsers, taskId, c, user)
            /\ chatHistories' = EnsureHistory(chatHistories, taskId)
            /\ outbox' = <<ToRoom(socketRooms', taskId, "user joined",
                                  [taskId |-> taskId, user |-> user]),
                           ToSocket(c, "chat history",
                                    [history |-> chatHistories'[taskId]])>>
            /\ joined' = [joined EXCEPT ![c] = @ \cup {taskId}]
            /\ UNCHANGED <<status, sent>>
    /\ inbox' = Deliver(inbox, outbox', status')
    /\ UNCHANGED uploadVars

(* -------------------------- 'chat message' ---------------------------- *)

MessageInvalidButName(taskId, sender) ==
    IF Falsy(taskId) THEN TRUE
    ELSE IF sender = NoUser THEN TRUE
    ELSE Falsy(sender.auid)

\* !taskId || !sender || !sender.auid || !sender.name
MessageInvalid(taskId, sender) ==
    IF Falsy(taskId) THEN TRUE
    ELSE IF sender = NoUser THEN TRUE
    ELSE IF Falsy(sender.auid) THEN TRUE
    ELSE Falsy(sender.name)

MessageErrorText == <<"Cannot send message. Missing task ID or sender information.">>

MessageAsGiven(message) == message

\* message || ''
MessageOrEmpty(message) == IF Falsy(message) THEN "" ELSE message

\* files || []
FilesOrEmpty(files) == IF files = NoFiles THEN FileList(<<>>) ELSE files

\* The msgData object.  timestamp (new Date()) is left out: nothing reads it.
MsgData(id, taskId, sender, message, files) ==
    [id |-> id, sender |-> sender, message |-> MessageOrEmpty(message),
     files |-> FilesOrEmpty(files), taskId |-> taskId]

PushBoundedUnlessKnownId(h, m) ==
    IF \E i \in 1..Len(h) : h[i].id = m.id THEN h
    ELSE LET p == Append(h, m)
         IN  IF Len(p) > MAX_HISTORY_LENGTH
             THEN SubSeq(p, Len(p) - MAX_HISTORY_LENGTH + 1, Len(p))
             ELSE p

PushBoundedAtFront(h, m) ==
    LET p == <<m>> \o h
    IN  IF Len(p) > MAX_HISTORY_LENGTH THEN SubSeq(p, 1, MAX_HISTORY_LENGTH) ELSE p

PushBoundedDropsNewest(h, m) ==
    LET p == Append(h, m)
    IN  IF Len(p) > MAX_HISTORY_LENGTH THEN SubSeq(p, 1, MAX_HISTORY_LENGTH) ELSE p

\* push(msgData), then splice(0, length - MAX_HISTORY_LENGTH) when too long.
PushBounded(h, m) ==
    LET p == Append(h, m)
    IN  IF Len(p) > MAX_HISTORY_LENGTH
        THEN SubSeq(p, Len(p) - MAX_HISTORY_LENGTH + 1, Len(p))
        ELSE p

\* Number of successful sends so far, over all rooms.
RECURSIVE TotalSent(_, _)
TotalSent(s, rs) ==
    IF rs = {} THEN 0
    ELSE LET r == CHOOSE x \in rs : TRUE IN Len(s[r]) + TotalSent(s, rs \ {r})

ChatMessage(c, taskId, sender, message, files, id) ==
    /\ status[c] = "connected"
    /\ lastOp' = Op("chat message", c, taskId, sender)
    /\ IF MessageInvalid(taskId, sender)
       THEN /\ outbox' = <<ToSocket(c, "error message", [message |-> MessageErrorText])>>
            /\ UNCHANGED <<status, userData, socketRooms, roomUsers,
                           chatHistories, sent, joined>>
       ELSE /\ LET msgData == MsgData(id, taskId, sender, message, files)
               IN  /\ chatHistories' =
                          [EnsureHistory(chatHistories, taskId) EXCEPT
                              ![taskId] = PushBounded(@, msgData)]
                   /\ outbox' = <<ToRoom(socketRooms, taskId, "chat message", msgData)>>
                   /\ sent' = [sent EXCEPT ![taskId] = Append(@, msgData)]
            /\ UNCHANGED <<status, userData, socketRooms, roomUsers, joined>>
    /\ inbox' = Deliver(inbox, outbox', status')
    /\ UNCHANGED uploadVars

(* ---------------------------- connection ------------------------------ *)

\* io.on('connection'): a new socket, in no room but its own.
Connect(c) ==
    /\ status[c] = "none"
    /\ status' = [status EXCEPT ![c] = "connected"]
    /\ outbox' = <<>>
    /\ lastOp' = Op("connection", c, "", NoUser)
    /\ UNCHANGED <<userData, socketRooms, roomUsers, chatHistories, sent, joined>>
    /\ inbox' = Deliver(inbox, outbox', status')
    /\ UNCHANGED uploadVars

\* socket.on('error')
SocketError(c) ==
    /\ status[c] = "connected"
    /\ lastOp' = Op("error", c, "", NoUser)
    /\ outbox' = <<ToSocket(c, "error message",
                            [message |-> <<"A server-side socket error occurred:">>])>>
    /\ UNCHANGED <<status, userData, socketRooms, roomUsers, chatHistories,
                   sent, joined>>
    /\ inbox' = Deliver(inbox, outbox', status')
    /\ UNCHANGED uploadVars

(* ---------------------------- 'disconnect' --------------------------- *)

\* The placeholder identity of a socket that never bound one.
GenericUser(c) == [name |-> "User " \o c, auid |-> "socket_" \o c]

\* A set as a sequence, in some fixed order.
RECURSIVE SetToSeq(_)
SetToSeq(S) ==
    IF S = {} THEN <<>>
    ELSE LET x == CHOOSE y \in S : TRUE IN <<x>> \o SetToSeq(S \ {x})

\* socket.rooms as the 'disconnect' handler reads it.  Socket.IO emits
\* 'disconnecting', makes the socket leave all its rooms, and only then
\* emits 'disconnect': the handler finds the rooms the socket is in after
\* leaving, sr being the adapter's rooms at that point.
RoomsAtDisconnect(c, before, sr) == sr[c]

\* delete roomUsers[room][socket.id], for the rooms the handler visits
\* with a bound user.
DropUser(ru, rooms, c) ==
    [r \in DOMAIN ru |->
        IF r \in rooms /\ c \in DOMAIN ru[r]
        THEN [k \in DOMAIN ru[r] \ {c} |-> ru[r][k]]
        ELSE ru[r]]

\* The 'user left' emit of one visited room.
UserLeft(sr, c, room, user) ==
    ToRoom(sr, room, "user left",
           [taskId |-> room, user |-> IF user # NoUser THEN user ELSE GenericUser(c)])

Disconnect(c) ==
    /\ status[c] = "connected"
    /\ status' = [status EXCEPT ![c] = "disconnected"]
    /\ lastOp' = Op("disconnect", c, "", NoUser)
    /\ socketRooms' = [socketRooms EXCEPT ![c] = {}]
    /\ LET user == userData[c]
           rooms == RoomsAtDisconnect(c, socketRooms[c], socketRooms')
           order == SetToSeq(rooms)
       IN  /\ outbox' = [i \in 1..Len(order) |-> UserLeft(socketRooms', c, order[i], user)]
           /\ roomUsers' = IF user # NoUser THEN DropUser(roomUsers, rooms, c) ELSE roomUsers
    /\ UNCHANGED <<userData, chatHistories, sent, joined>>
    /\ inbox' = Deliver(inbox, outbox', status')
    /\ UNCHANGED uploadVars

(* ------------------------------ upload -------------------------------- *)

\* A media type 'type/subtype' is the pair <<type, subtype>>; the pattern
\* 'image/' is <<"image", "">>.
ALLOWED_MIME_PATTERNS_CHAT ==
    << <<"image", "">>,
       <<"application", "pdf">>,
       <<"application", "msword">>,
       <<"application", "vnd.openxmlformats-officedocument.wordprocessingml.document">>,
       <<"application", "vnd.ms-excel">>,
       <<"application", "vnd.openxmlformats-officedocument.spreadsheetml.sheet">>,
       <<"application", "vnd.ms-powerpoint">>,
       <<"application", "vnd.openxmlformats-officedocument.presentationml.presentation">>,
       <<"text", "plain">>,
       <<"application", "zip">>,
       <<"application", "x-rar-compressed">>,
       <<"application", "octet-stream">> >>

\* pattern.endsWith('/')
IsPrefixPattern(pattern) == pattern[2] = ""

\* The test of one pattern inside `some`.
MatchesPattern(mimetype, pattern) ==
    IF IsPrefixPattern(pattern)
    THEN mimetype[1] = pattern[1]
    ELSE mimetype = pattern

OctetStream == <<"application", "octet-stream">>

\* The characters of name after its last '.', none if it has no '.'.
ExtensionOf(name) ==
    LET dots == {i \in 1..Len(name) : name[i] = "."}
    IN  IF dots = {} THEN <<>>
        ELSE SubSeq(name, (CHOOSE i \in dots : \A j \in dots : j <= i) + 1, Len(name))

\* Extensions of the office document types of the allow-list.
OfficeExtensions ==
    { <<"d", "o", "c">>, <<"d", "o", "c", "x">>, <<"x", "l", "s">>,
      <<"x", "l", "s", "x">>, <<"p", "p", "t">>, <<"p", "p", "t", "x">> }

fileFilterWithExtensionFallback(file) ==
    IF file.mimetype = OctetStream
    THEN ExtensionOf(file.originalname) \in OfficeExtensions
    ELSE \E i \in 1..Len(ALLOWED_MIME_PATTERNS_CHAT) :
            MatchesPattern(file.mimetype, ALLOWED_MIME_PATTERNS_CHAT[i])

\* isAllowed of fileFilter: the file is passed on exactly when it holds.
fileFilter(file) ==
    \E i \in 1..Len(ALLOWED_MIME_PATTERNS_CHAT) :
        MatchesPattern(file.mimetype, ALLOWED_MIME_PATTERNS_CHAT[i])

MimeString(mimetype) == mimetype[1] \o "/" \o mimetype[2]

\* The Error fileFilter passes to its callback on rejection.
FilterError(file) ==
    [multer |-> FALSE,
     message |-> "File type '" \o MimeString(file.mimetype) \o "' is not allowed."]

\* The MulterError multer raises for a file beyond the count of upload.array,
\* and for a file beyond limits.fileSize.
TooManyFilesError == [multer |-> TRUE, message |-> "Unexpected field"]
FileTooLargeError == [multer |-> TRUE, message |-> "File too large"]

\* Characters the replace of storage.filename keeps: [a-zA-Z0-9._-].
SafeChars == {"a", "b", "r", "d", "o", "c", "x", "e", "p", "n", "g",
              "h", "t", "m", "l", "f", "i", ".", "_", "-", "1", "2"}

\* file.originalname.replace(/[^a-zA-Z0-9._-]/g, ''), names being sequences
\* of characters.
IsSafeChar(ch) == ch \in SafeChars
SafeOriginalName(originalname) == SelectSeq(originalname, IsSafeChar)

\* `${uniqueSuffix}-${safeOriginalName}`
StorageName(uniqueSuffix, originalname) ==
    <<ToString(uniqueSuffix), "-">> \o SafeOriginalName(originalname)

\* Outcomes of Date.now() + '-' + Math.round(Math.random() * 1E9), given
\* the number n of the latest suffix drawn so far (0: none yet).  The clock
\* only moves forward, so a draw yields a suffix never drawn before, here
\* n + 1, or, within the same millisecond and with the same random number,
\* the latest suffix once more.
UniqueSuffixes(n) == {k \in {n, n + 1} : k > 0}

\* Files a client may send.
DocxFile == [originalname |-> <<"r", ".", "d", "o", "c", "x">>,
             mimetype |-> <<"application", "octet-stream">>, size |-> 2048]
ExeFile  == [originalname |-> <<"r", ".", "e", "x", "e">>,
             mimetype |-> <<"application", "octet-stream">>, size |-> 2048]
HtmlFile == [originalname |-> <<"x", ".", "h", "t", "m", "l">>,
             mimetype |-> <<"text", "html">>, size |-> 512]
BigPng   == [originalname |-> <<"b", " ", "i", "g", ".", "p", "n", "g">>,
             mimetype |-> <<"image", "png">>, size |-> 20000000]
FileInputs == {DocxFile, ExeFile, HtmlFile, BigPng}
BatchFileInputs == {DocxFile, HtmlFile, BigPng}

Idle == [busy |-> FALSE]
NoResponse == [status |-> 0]

\* One entry of filesDataWithFullUrl.
FileData(file) ==
    [name |-> file.originalname,
     url |-> <<"APP_BASE_URL", "/", "uploads", "/">> \o file.filename,
     type |-> file.mimetype, size |-> file.size]

\* The callback of upload.array in the route, on an error of multer or of
\* the filter.
ErrorResponse(err) ==
    IF err.multer
    THEN [status |-> 400, error |-> "Upload error: " \o err.message]
    ELSE [status |-> 400, error |-> err.message]

\* The callback of upload.array in the route, with no error.
FilesResponse(files) ==
    IF Len(files) = 0
    THEN [status |-> 400,
          error |-> "No files were uploaded or all files were rejected by the filter."]
    ELSE [status |-> 200, files |-> [i \in 1..Len(files) |-> FileData(files[i])]]

\* fs.unlink of every file the call stored: multer removes what a failing
\* call has written before it reports the error.
RemoveUploaded(d, files) ==
    LET gone == {files[i].filename : i \in 1..Len(files)}
    IN  [n \in DOMAIN d \ gone |-> d[n]]

\* The disk storage engine writing one file under its storage name.
WriteFile(d, name, call) ==
    [n \in DOMAIN d \cup {name} |-> IF n = name THEN call ELSE d[n]]

\* POST /upload arrives with `parts` file parts.
UploadBegin(parts) ==
    /\ ~upl.busy
    /\ uploadsBegun < MaxUploads
    /\ uploadsBegun' = uploadsBegun + 1
    /\ upl' = [busy |-> TRUE, id |-> uploadsBegun + 1, partsLeft |-> parts,
               filesLeft |-> MAX_FILES, files |-> <<>>]
    /\ diskBefore' = disk
    /\ partsSent' = parts
    /\ reused' = FALSE
    /\ response' = NoResponse
    /\ UNCHANGED <<disk, drawn>>
    /\ UNCHANGED chatVars

\* multer fails the call: stored files are removed, the route answers 400.
AbortUpload(err, written) ==
    /\ disk' = RemoveUploaded(written, upl.files)
    /\ response' = ErrorResponse(err)
    /\ upl' = Idle

\* multer handles the next file part of the call.
UploadPart(file, uniqueSuffix) ==
    /\ upl.busy
    /\ upl.partsLeft > 0
    /\ LET filename == StorageName(uniqueSuffix, file.originalname)
           stored == [originalname |-> file.originalname, filename |-> filename,
                      mimetype |-> file.mimetype, size |-> file.size]
       IN  IF upl.filesLeft <= 0
           THEN AbortUpload(TooManyFilesError, disk) /\ UNCHANGED <<reused, drawn>>
           ELSE IF ~fileFilter(file)
           THEN AbortUpload(FilterError(file), disk) /\ UNCHANGED <<reused, drawn>>
           ELSE IF file.size > FILE_SIZE_LIMIT
           THEN /\ AbortUpload(FileTooLargeError,
                               RemoveUploaded(WriteFile(disk, filename, upl.id),
                                              <<stored>>))
                /\ reused' = (reused \/ filename \in DOMAIN disk)
                /\ drawn' = uniqueSuffix
           ELSE /\ disk' = WriteFile(disk, filename, upl.id)
                /\ upl' = [upl EXCEPT !.partsLeft = @ - 1, !.filesLeft = @ - 1,
                                      !.files = Append(@, stored)]
                /\ reused' = (reused \/ filename \in DOMAIN disk)
                /\ drawn' = uniqueSuffix
                /\ UNCHANGED response
    /\ UNCHANGED <<uploadsBegun, diskBefore, partsSent>>
    /\ UNCHANGED chatVars

\* The request body ends: the route answers from req.files.
UploadEnd ==
    /\ upl.busy
    /\ upl.partsLeft = 0
    /\ response' = FilesResponse(upl.files)
    /\ upl' = Idle
    /\ UNCHANGED <<disk, uploadsBegun, diskBefore, partsSent, reused, drawn>>
    /\ UNCHANGED chatVars

UploadInit ==
    /\ disk = [n \in {} |-> 0]
    /\ upl = Idle
    /\ response = NoResponse
    /\ uploadsBegun = 0
    /\ diskBefore = [n \in {} |-> 0]
    /\ partsSent = 0
    /\ reused = FALSE
    /\ drawn = 0

\* Short calls of files of every kind.
UploadNext ==
    \/ \E parts \in 0..MaxParts : UploadBegin(parts)
    \/ \E file \in FileInputs, u \in UniqueSuffixes(drawn) : UploadPart(file, u)
    \/ UploadEnd

\* Calls of up to one file more than upload.array allows, of fewer kinds.
BatchNext ==
    \/ \E parts \in 0..(MAX_FILES + 1) : UploadBegin(parts)
    \/ \E file \in BatchFileInputs, u \in UniqueSuffixes(drawn) : UploadPart(file, u)
    \/ UploadEnd

ChatInit ==
    /\ status = [c \in Conns |-> "none"]
    /\ userData = [c \in Conns |-> NoUser]
    /\ socketRooms = [c \in Conns |-> {}]
    /\ roomUsers = [r \in {} |-> EmptyObject]
    /\ chatHistories = [r \in {} |-> <<>>]
    /\ outbox = <<>>
    /\ sent = [r \in Rooms |-> <<>>]
    /\ joined = [c \in Conns |-> {}]
    /\ lastOp = Op("listen", "", "", NoUser)
    /\ inbox = NotObserved

Init == ChatInit /\ UploadInit

\* A successful send is still within the bound max of the model.
SendAllowed(taskId, sender, max) ==
    IF MessageInvalid(taskId, sender) THEN TRUE ELSE TotalSent(sent, Rooms) < max

\* One identity and one message body, every task id: joins, a few sends to
\* both rooms by members and non-members, rejected requests, disconnects.
Join(c, t) == JoinRoom(c, t, ann)

Send(c, t, i) ==
    /\ SendAllowed(t, ann, MaxSends)
    /\ ChatMessage(c, t, ann, "hi", NoFiles, i)

Next ==
    \/ \E c \in Conns : Connect(c)
    \/ \E c \in Conns, t \in TaskIds : Join(c, t)
    \/ \E c \in Conns, t \in TaskIds, i \in MsgIds : Send(c, t, i)
    \/ \E c \in Conns : SocketError(c)
    \/ \E c \in Conns : Disconnect(c)

Spec == Init /\ [][Next]_vars

\* Every request payload, well-formed or not, with few sends.
RequestJoin(c, t, u) == JoinRoom(c, t, u)

RequestSend(c, t, s, b) ==
    /\ SendAllowed(t, s, MaxRequestSends)
    /\ ChatMessage(c, t, s, b.message, b.files, "msg-1-aaaaaaa")

RequestNext ==
    \/ \E c \in Conns : Connect(c)
    \/ \E c \in Conns, t \in TaskIds, u \in UserInputs : RequestJoin(c, t, u)
    \/ \E c \in Conns, t \in TaskIds, s \in SenderInputs, b \in BodyInputs :
          RequestSend(c, t, s, b)
    \/ \E c \in Conns : SocketError(c)
    \/ \E c \in Conns : Disconnect(c)

RequestSpec == Init /\ [][RequestNext]_vars

\* A long run: the clock advances between the sends to a room, so that
\* every message of the room gets an id of its own; few sends go to room B.
LongId(k) == "msg-" \o ToString(k) \o "-aaaaaaa"

LongSend(c, t) ==
    /\ TotalSent(sent, Rooms) < MaxLongSends
    /\ t = "B" => Len(sent[t]) < MaxOtherSends
    /\ ChatMessage(c, t, ann, "hi", NoFiles, LongId(Len(sent[t]) + 1))

HistoryNext ==
    \/ \E c \in Conns : Connect(c)
    \/ \E c \in Conns, t \in Rooms : Join(c, t)
    \/ \E c \in Conns, t \in Rooms : LongSend(c, t)
    \/ \E c \in Conns : Disconnect(c)

HistorySpec == Init /\ [][HistoryNext]_vars

\* The runs of Spec with fewer sends, what each socket receives observed.
OrderInit ==
    /\ status = [c \in Conns |-> "none"]
    /\ userData = [c \in Conns |-> NoUser]
    /\ socketRooms = [c \in Conns |-> {}]
    /\ roomUsers = [r \in {} |-> EmptyObject]
    /\ chatHistories = [r \in {} |-> <<>>]
    /\ outbox = <<>>
    /\ sent = [r \in Rooms |-> <<>>]
    /\ joined = [c \in Conns |-> {}]
    /\ lastOp = Op("listen", "", "", NoUser)
    /\ inbox = Observed([c \in Conns |-> <<>>])
    /\ UploadInit

OrderSend(c, t, i) ==
    /\ SendAllowed(t, ann, MaxOrderSends)
    /\ ChatMessage(c, t, ann, "hi", NoFiles, i)

OrderNext ==
    \/ \E c \in Conns : Connect(c)
    \/ \E c \in Conns, t \in TaskIds : Join(c, t)
    \/ \E c \in Conns, t \in TaskIds, i \in MsgIds : OrderSend(c, t, i)
    \/ \E c \in Conns : SocketError(c)
    \/ \E c \in Conns : Disconnect(c)

OrderSpec == OrderInit /\ [][OrderNext]_vars

UploadSpec == Init /\ [][UploadNext]_vars

BatchSpec == Init /\ [][BatchNext]_vars

(* ======================= properties of the relay ======================= *)

Min(a, b) == IF a < b THEN a ELSE b

\* The last n elements of s.
LastOf(s, n) == SubSeq(s, Len(s) - n + 1, Len(s))

\* The history of room r as a client sees it: none yet reads as empty.
HistoryOf(r) == IF r \in DOMAIN chatHistories THEN chatHistories[r] ELSE <<>>

\* The last min(k, MAX_HISTORY_LENGTH) messages sent to r, k being the
\* number of successful sends to r.
RecentSent(r) == LastOf(sent[r], Min(Len(sent[r]), MAX_HISTORY_LENGTH))

\* Connections that are connected and have successfully joined r.
MembersOf(r, st, jn) == {c \in Conns : st[c] = "connected" /\ r \in jn[c]}

\* An identity / room field of a request that is missing or empty.
Missing(v) == v = "" \/ v = Undefined
BadIdentity(u) == IF u = NoUser THEN TRUE ELSE Missing(u.auid) \/ Missing(u.name)

\* C1: in every reachable state every room's history has at most
\* MAX_HISTORY_LENGTH entries and is exactly the last
\* min(k, MAX_HISTORY_LENGTH) messages successfully sent to the room, in
\* the order they were sent.
C1_HistoryIsRecentSent ==
    \A r \in Rooms :
        /\ Len(HistoryOf(r)) <= MAX_HISTORY_LENGTH
        /\ HistoryOf(r) = RecentSent(r)

\* A room has overflowed: more sends than the history keeps, the evicted
\* message differing from the ones kept.
C1_Witness ==
    \E r \in Rooms :
        /\ Len(sent[r]) > MAX_HISTORY_LENGTH
        /\ Len(HistoryOf(r)) = MAX_HISTORY_LENGTH
        /\ sent[r][1] # sent[r][2]
        /\ sent[r][2] # sent[r][3]

\* The emits of event ev in out, in order.
EmitsOf(out, ev) == SelectSeq(out, LAMBDA e : e.ev = ev)

\* The most recent handler handled event op of a well-formed request.
Accepted(op) ==
    /\ lastOp.op = op
    /\ ~Missing(lastOp.taskId)
    /\ ~BadIdentity(lastOp.user)

\* The most recent handler handled event op of a request that lacks its
\* taskId, its user / sender, or the auid or name of it.
Rejected(op) ==
    /\ lastOp.op = op
    /\ (Missing(lastOp.taskId) \/ BadIdentity(lastOp.user))

\* C2: a connection that successfully joins room R after k successful
\* sends to R receives one 'chat history' event holding exactly the last
\* min(k, MAX_HISTORY_LENGTH) messages of R in send order; and every
\* message successfully sent to R is delivered live, as 'chat message', to
\* every connection that has joined R and is still connected.
C2_SnapshotThenLive ==
    /\ Accepted("join room") =>
          LET hs == EmitsOf(outbox, "chat history")
          IN  /\ Len(hs) = 1
              /\ lastOp.conn \in hs[1].to
              /\ hs[1].data.history = RecentSent(lastOp.taskId)
    /\ Accepted("chat message") =>
          LET ms == EmitsOf(outbox, "chat message")
              log == sent[lastOp.taskId]
          IN  /\ Len(ms) = 1
              /\ Len(log) > 0
              /\ ms[1].data = log[Len(log)]
              /\ \A d \in MembersOf(lastOp.taskId, status, joined) : d \in ms[1].to

\* A connection has just joined a room that had overflowed, and got the
\* truncated snapshot.
C2_Witness ==
    /\ Accepted("join room")
    /\ Len(sent[lastOp.taskId]) > MAX_HISTORY_LENGTH
    /\ Len(outbox) = 2
    /\ outbox[2].ev = "chat history"
    /\ Len(outbox[2].data.history) = MAX_HISTORY_LENGTH

\* C3: a 'chat message' request whose taskId, sender, sender.auid or
\* sender.name is missing or empty emits no 'chat message' and exactly one
\* 'error message', delivered to the requesting connection only; it leaves
\* every history, every membership and the connection's liveness as they
\* were, so the connection can still send.
C3_RejectedSendIsLocal ==
    [][ Rejected("chat message")' =>
            /\ Len(outbox') = 1
            /\ outbox'[1].ev = "error message"
            /\ outbox'[1].to = {lastOp'.conn}
            /\ UNCHANGED <<chatHistories, roomUsers, socketRooms, userData,
                           status, sent, joined>>
            /\ status'[lastOp'.conn] = "connected"
      ]_vars

\* A request was just rejected while a room has members and a history.
C3_Witness ==
    /\ Rejected("chat message")
    /\ Len(outbox) = 1
    /\ outbox[1].data.message = MessageErrorText
    /\ \E r \in Rooms : Len(HistoryOf(r)) > 0 /\ InRoom(socketRooms, r) # {}

\* The 'user left' emits of out for room r.
LeftEmits(out, r) == SelectSeq(out, LAMBDA e : e.ev = "user left" /\ e.room = r)

\* C4: when a connection that is a member of rooms A and B disconnects,
\* exactly one 'user left' is broadcast for A and exactly one for B, its
\* entry is removed from roomUsers of both rooms, and no event emitted by
\* the disconnect is delivered to it.
C4_DisconnectLeavesEveryRoom ==
    (lastOp.op = "disconnect" /\ joined[lastOp.conn] = {"A", "B"}) =>
        /\ \A r \in {"A", "B"} :
              /\ Len(LeftEmits(outbox, r)) = 1
              /\ lastOp.conn \notin DOMAIN roomUsers[r]
        /\ \A i \in 1..Len(outbox) : lastOp.conn \notin outbox[i].to

\* The fields of a 'join room' request that are missing or empty.
ExpectedMissing(taskId, user) ==
    {f \in {"taskId"} : Missing(taskId)}
    \cup (IF user = NoUser
          THEN {"user object"}
          ELSE {f \in {"user.auid"} : Missing(user.auid)}
               \cup {f \in {"user.name"} : Missing(user.name)})

\* C5: a 'join room' request whose taskId, user, user.auid or user.name is
\* missing or empty is answered with exactly one 'error message', sent to
\* the requesting connection only, naming exactly the missing fields; it
\* binds no identity, adds no membership, emits no 'user joined' and no
\* 'chat history', and creates no history or membership entry.
C5_RejectedJoinIsLocal ==
    [][ Rejected("join room")' =>
            /\ Len(outbox') = 1
            /\ outbox'[1].ev = "error message"
            /\ outbox'[1].to = {lastOp'.conn}
            /\ LET text == outbox'[1].data.message
               IN  {text[i] : i \in 2..Len(text)}
                       = ExpectedMissing(lastOp'.taskId, lastOp'.user)
            /\ UNCHANGED <<userData, socketRooms, roomUsers, chatHistories,
                           joined, status, sent>>
      ]_vars

\* A join lacking both its taskId and the auid of its user was just rejected.
C5_Witness ==
    /\ Rejected("join room")
    /\ Missing(lastOp.taskId)
    /\ lastOp.user # NoUser
    /\ Len(outbox) = 1
    /\ Len(outbox[1].data.message) = 3

\* C6 as claimed: once bound, the identity of a connection never changes.
C6_IdentitySetOnce ==
    [][ \A c \in Conns : userData[c] # NoUser => userData'[c] = userData[c] ]_vars

\* C6, amended: every successful join binds its user to the connection, so
\* the bound identity is the user of the most recent successful join, and
\* nothing but a successful join of that connection changes it.
C6_IdentityIsLatestJoin ==
    [][ \A c \in Conns :
            userData'[c] = IF Accepted("join room")' /\ lastOp'.conn = c
                           THEN lastOp'.user
                           ELSE userData[c] ]_vars

\* A connection sits in a room under one user while bound to another.
C6_Witness ==
    \E r \in DOMAIN roomUsers : \E c \in DOMAIN roomUsers[r] :
        /\ userData[c] # NoUser
        /\ roomUsers[r][c] # userData[c]

\* C7: a successful join of c to R delivers one 'user joined' to every
\* member of R at that moment, c included, and the 'chat history' to c
\* only, holding the history of R at that moment.
C7_JoinEmits ==
    Accepted("join room") =>
        /\ Len(outbox) = 2
        /\ outbox[1].ev = "user joined"
        /\ outbox[1].data = [taskId |-> lastOp.taskId, user |-> lastOp.user]
        /\ outbox[1].to = MembersOf(lastOp.taskId, status, joined)
        /\ lastOp.conn \in outbox[1].to
        /\ outbox[2].ev = "chat history"
        /\ outbox[2].to = {lastOp.conn}
        /\ outbox[2].data.history = HistoryOf(lastOp.taskId)

\* A second member has just joined a room that has a history.
C7_Witness ==
    /\ Accepted("join room")
    /\ Len(outbox) = 2
    /\ Cardinality(outbox[1].to) = 2
    /\ Len(outbox[2].data.history) > 0

\* C8 as claimed: a successful send delivers the message once to every
\* member of the room, and the sender is one of the receivers.
C8_SenderAlwaysReceives ==
    Accepted("chat message") =>
        LET ms == EmitsOf(outbox, "chat message")
        IN  /\ Len(ms) = 1
            /\ ms[1].to = MembersOf(lastOp.taskId, status, joined)
            /\ lastOp.conn \in ms[1].to

\* C8, amended: a successful send delivers the built message once to every
\* member of the room and to no one else; the sender receives it exactly
\* when it is itself a member of the room.
C8_DeliveredToMembers ==
    Accepted("chat message") =>
        LET ms == EmitsOf(outbox, "chat message")
        IN  /\ Len(outbox) = 1
            /\ Len(ms) = 1
            /\ ms[1].data.taskId = lastOp.taskId
            /\ ms[1].data.sender = lastOp.user
            /\ ms[1].to = MembersOf(lastOp.taskId, status, joined)
            /\ lastOp.conn \in ms[1].to <=> lastOp.taskId \in joined[lastOp.conn]

\* A connection outside the room has just sent to it, and a member got it.
C8_Witness ==
    /\ Accepted("chat message")
    /\ Len(outbox) = 1
    /\ outbox[1].to # {}
    /\ lastOp.conn \notin outbox[1].to

(* ====================== properties of the upload ======================= *)

\* The upload call that has just been handed file: it is still being
\* processed and file is its latest stored file, or it was failed.
StoredLast(file) ==
    /\ upl.busy
    /\ Len(upl.files) > 0
    /\ upl.files[Len(upl.files)].originalname = file.originalname
    /\ upl.files[Len(upl.files)].mimetype = file.mimetype

\* C9 as claimed: a file declared application/octet-stream is let through
\* only when the extension of its original name is that of an allow-listed
\* office document type, so every such file a call has stored has one.
C9_OctetStreamNeedsOfficeExtension ==
    upl.busy =>
        \A i \in 1..Len(upl.files) :
            upl.files[i].mimetype = OctetStream =>
                ExtensionOf(upl.files[i].originalname) \in OfficeExtensions

\* C9, amended: the filter lets through every file declared
\* application/octet-stream whatever the extension of its original name,
\* .docx and .exe alike, and fails the call for a file whose declared type
\* matches no entry of the allow-list, naming the type.
C9_OctetStreamAlwaysAccepted ==
    [][ \A file \in FileInputs, u \in UniqueSuffixes(drawn) :
            (UploadPart(file, u) /\ upl.filesLeft > 0
                /\ file.size <= FILE_SIZE_LIMIT) =>
                /\ file.mimetype = OctetStream => StoredLast(file)'
                /\ file = HtmlFile =>
                      /\ ~upl'.busy
                      /\ response' = [status |-> 400,
                                      error |-> "File type 'text/html' is not allowed."]
      ]_vars

\* A call has stored a .docx and a .exe, both declared octet-stream.
C9_Witness ==
    /\ upl.busy
    /\ \E i, j \in 1..Len(upl.files) :
          /\ upl.files[i].mimetype = OctetStream
          /\ upl.files[j].mimetype = OctetStream
          /\ ExtensionOf(upl.files[i].originalname) = <<"d", "o", "c", "x">>
          /\ ExtensionOf(upl.files[j].originalname) = <<"e", "x", "e">>

\* An upload call has been answered.
Answered == ~upl.busy /\ response.status # 0

\* C10: an upload call carrying more than MAX_FILES files ends with status
\* 400 and an error body, and after any failed upload call the persisted
\* files are the ones persisted before it.
C10_FailedUploadPersistsNothing ==
    Answered =>
        /\ partsSent > MAX_FILES =>
              (response.status = 400 /\ "error" \in DOMAIN response)
        /\ response.status = 400 => disk = diskBefore

\* The same, for the calls that wrote under no storage name already used.
FailedUploadKeepsDiskUnlessNameReused ==
    (Answered /\ ~reused) =>
        /\ partsSent > MAX_FILES =>
              (response.status = 400 /\ "error" \in DOMAIN response)
        /\ response.status = 400 => disk = diskBefore

\* A call of more than MAX_FILES files has failed on the file beyond the
\* count, after writing MAX_FILES files that are gone again.
TooManyFilesSeen ==
    /\ Answered
    /\ ~reused
    /\ partsSent > MAX_FILES
    /\ response = [status |-> 400, error |-> "Upload error: Unexpected field"]
    /\ DOMAIN diskBefore # {}

\* C11: any two files a call has stored carry different storage names, and
\* no call stores a file under a storage name already on disk, so that any
\* two accepted uploads have different names and URLs.
C11_StorageNamesDistinct ==
    /\ ~reused
    /\ upl.busy =>
          \A i, j \in 1..Len(upl.files) :
              i # j => upl.files[i].filename # upl.files[j].filename

\* C12: the message a successful send broadcasts is the last entry of the
\* room's history at that moment, and the snapshot a join receives after
\* at least one send to the room ends with the latest message sent to it.
C12_BroadcastIsLastOfHistory ==
    /\ Accepted("chat message") =>
          LET h == HistoryOf(lastOp.taskId)
              ms == EmitsOf(outbox, "chat message")
          IN  /\ Len(ms) = 1
              /\ Len(h) > 0
              /\ h[Len(h)] = ms[1].data
    /\ (Accepted("join room") /\ Len(sent[lastOp.taskId]) > 0) =>
          LET hs == EmitsOf(outbox, "chat history")
              log == sent[lastOp.taskId]
          IN  /\ Len(hs) = 1
              /\ Len(hs[1].data.history) > 0
              /\ hs[1].data.history[Len(hs[1].data.history)] = log[Len(log)]

\* A connection has just joined a room after its second send, the two
\* messages differing, and before any further send.
C12_Witness ==
    /\ Accepted("join room")
    /\ Len(sent[lastOp.taskId]) = 2
    /\ sent[lastOp.taskId][1] # sent[lastOp.taskId][2]
    /\ Len(outbox) = 2
    /\ outbox[2].data.history = sent[lastOp.taskId]

\* a is the end of b.
IsSuffix(a, b) ==
    /\ Len(a) <= Len(b)
    /\ a = SubSeq(b, Len(b) - Len(a) + 1, Len(b))

\* The live messages of room r that connection c remembers.
InboxOf(c, r) == SelectSeq(inbox.got[c], LAMBDA m : m.taskId = r)

\* C13: what a connected member remembers of the live messages of room R
\* is the end of R's history, in history order; hence of two members of R
\* the one that has received fewer has received the end of what the other
\* has received, in the same order.
C13_MembersSeeHistoryOrder ==
    inbox.on => \A r \in Rooms :
        /\ \A c \in Conns : IsSuffix(InboxOf(c, r), HistoryOf(r))
        /\ \A c, d \in MembersOf(r, status, joined) :
              \/ IsSuffix(InboxOf(c, r), InboxOf(d, r))
              \/ IsSuffix(InboxOf(d, r), InboxOf(c, r))

\* Two members of a room have both received two differing messages of it.
C13_Witness ==
    inbox.on /\ \E r \in Rooms : \E c, d \in MembersOf(r, status, joined) :
        /\ c # d
        /\ Len(InboxOf(c, r)) = 2
        /\ InboxOf(c, r)[1] # InboxOf(c, r)[2]
        /\ InboxOf(d, r) = InboxOf(c, r)

\* C14: connection c has an entry in roomUsers[R] exactly when c is
\* connected and has successfully joined R; a disconnected connection has
\* an entry in no room.
C14_MembershipTableExact ==
    \A c \in Conns, r \in Rooms :
        (r \in DOMAIN roomUsers /\ c \in DOMAIN roomUsers[r])
            <=> (status[c] = "connected" /\ r \in joined[c])

\* C15: once the last member of a room has disconnected, the room's history
\* entry still exists and holds the messages sent to it, and its membership
\* entry still exists and is empty.
C15_EmptyRoomKeepsEntries ==
    lastOp.op = "disconnect" =>
        \A r \in joined[lastOp.conn] :
            MembersOf(r, status, joined) = {} =>
                /\ r \in DOMAIN chatHistories
                /\ chatHistories[r] = RecentSent(r)
                /\ r \in DOMAIN roomUsers
                /\ DOMAIN roomUsers[r] = {}

\* The part of it that is about the histories and the entries existing: a
\* disconnect changes no history and removes no room's entry.
DisconnectKeepsHistories ==
    [][ lastOp'.op = "disconnect" =>
            /\ chatHistories' = chatHistories
            /\ DOMAIN roomUsers' = DOMAIN roomUsers ]_vars

\* C16: no two messages the server has created, in the same room or in
\* different rooms, carry the same id.
C16_MessageIdsUnique ==
    \A r1, r2 \in Rooms :
        \A i \in 1..Len(sent[r1]), j \in 1..Len(sent[r2]) :
            (r1 # r2 \/ i # j) => sent[r1][i].id # sent[r2][j].id

\* C17: a disconnect broadcasts, for every room the connection was a
\* member of, a 'user left' carrying the user stored for the connection in
\* that room's membership table.
C17_UserLeftCarriesRoomIdentity ==
    [][ lastOp'.op = "disconnect" =>
            \A r \in joined[lastOp'.conn] :
                \E i \in 1..Len(outbox') :
                    /\ outbox'[i].ev = "user left"
                    /\ outbox'[i].room = r
                    /\ outbox'[i].data.user = roomUsers[r][lastOp'.conn] ]_vars

\* C18: a successful send to room R leaves the history of every other
\* room, every membership table and every bound identity as they were; a
\* successful join leaves the content of every existing history as it was
\* and at most creates an empty history for the room joined.
C18_SendAndJoinFrame ==
    [][ /\ Accepted("chat message")' =>
              /\ \A r \in Rooms \ {lastOp'.taskId} :
                    /\ r \in DOMAIN chatHistories' <=> r \in DOMAIN chatHistories
                    /\ r \in DOMAIN chatHistories =>
                          chatHistories'[r] = chatHistories[r]
              /\ roomUsers' = roomUsers
              /\ userData' = userData
        /\ Accepted("join room")' =>
              /\ DOMAIN chatHistories \subseteq DOMAIN chatHistories'
              /\ \A r \in DOMAIN chatHistories' :
                    IF r \in DOMAIN chatHistories
                    THEN chatHistories'[r] = chatHistories[r]
                    ELSE r = lastOp'.taskId /\ chatHistories'[r] = <<>>
      ]_vars

\* A connection has just joined a room while both rooms hold messages.
C18_Witness ==
    /\ Accepted("join room")
    /\ \A r \in Rooms : Len(HistoryOf(r)) > 0

\* The message text and files of a stored message, for the bodies clients
\* send: '' and [] where the request carried none.
BodyDefaults ==
    {[message |-> "", files |-> FileList(<<>>)],
     [message |-> "hi", files |-> FileList(<<"f.png">>)]}

\* C19: every message stored in the history of room R has taskId R, a
\* sender with non-empty auid and name, and a defined message text and
\* files list, '' and [] when the request omitted them.
C19_StoredMessagesWellFormed ==
    \A r \in DOMAIN chatHistories :
        \A i \in 1..Len(chatHistories[r]) :
            LET m == chatHistories[r][i]
            IN  /\ m.taskId = r
                /\ ~BadIdentity(m.sender)
                /\ m.message # Undefined
                /\ m.files # NoFiles
                /\ [message |-> m.message, files |-> m.files] \in BodyDefaults

\* A history holds a message whose request carried neither text nor files.
C19_Witness ==
    \E r \in DOMAIN chatHistories :
        \E i \in 1..Len(chatHistories[r]) :
            /\ chatHistories[r][i].message = ""
            /\ chatHistories[r][i].files = FileList(<<>>)

\* C20: a connection that is in a room, or has an entry in a membership
\* table, has a bound identity with non-empty auid and name; no 'user left'
\* carries the placeholder identity.
C20_MembersHaveIdentity ==
    /\ \A c \in Conns :
          (\/ socketRooms[c] # {}
           \/ joined[c] # {}
           \/ \E r \in DOMAIN roomUsers : c \in DOMAIN roomUsers[r])
              => ~BadIdentity(userData[c])
    /\ \A i \in 1..Len(outbox) :
          outbox[i].ev = "user left" =>
              outbox[i].data.user # GenericUser(lastOp.conn)

\* A connection without identity has just had a join rejected while
\* another connection is a member of a room.
C20_Witness ==
    /\ Rejected("join room")
    /\ userData[lastOp.conn] = NoUser
    /\ \E c \in Conns : socketRooms[c] # {} /\ userData[c] # NoUser

====
